---- MODULE Spec2Model ----
(***************************************************************************)
(* State-machine model of map.js (IP geolocation web map).                 *)
(*                                                                         *)
(* The page is single-threaded: every handler runs to completion.  One     *)
(* action of the model is one handler or one continuation of an await.     *)
(* The mapping library is not part of the repository; the model keeps      *)
(* only what map.js relies on: addSource/addLayer refuse an id that is     *)
(* already registered, setStyle drops everything added on top of the       *)
(* basemap, once('styledata') listeners all run on the next styledata      *)
(* event, and the camera setters assign the camera.                        *)
(*                                                                         *)
(* Strings are TLA+ strings; the pictographs map.js puts in front of its   *)
(* messages are left out of the texts.  Coordinates are integers.          *)
(*                                                                         *)
(* Spec is the page with a library that throws only on a duplicate id,     *)
(* SpecFault the page with a library whose calls may throw for reasons of  *)
(* its own, SpecCamera the handlers that move the camera, SpecSelector     *)
(* changeMapStyle with keys in and out of the registry, SpecInteractions   *)
(* the clicks on the data layers, SpecPaint the paint of the clusters      *)
(* layer and SpecPopup the coordinates of the popup of a point.            *)
(***************************************************************************)
EXTENDS Integers, Sequences, FiniteSets, TLC

VARIABLES
    map,              \* "undefined" | "created"            (map.js:6)
    ipLocationData,   \* JS value held by the global         (map.js:9)
    loadPc,           \* loadGeoJSONData: "idle" | "fetching" | "reading" | "done"
    response,         \* what fetch settled with, "none" before
    status,           \* the #ip-count node: [text, color]
    sources,          \* ids of the sources added on top of the basemap
    layers,           \* ids of the layers added on top of the basemap, in order
    activeStyle,      \* key of the style last given to the map
    onceStyledata,    \* closures registered by map.once('styledata'), in order
    dispatching,      \* listeners of the styledata event being delivered
    camera,           \* [center, zoom, pitch, bearing]
    interactions,     \* how many times addMapInteractions bound its handlers
    lookups,          \* getClusterExpansionZoom callbacks not yet called
    popups,           \* popups open on the map
    renderCalls,      \* number of addGeoJSONToMap calls so far
    lastRender,       \* what the last addGeoJSONToMap call did
    earlySwitch,      \* a style switch was issued before load() finished
    styleRequest,     \* the key changeMapStyle was last called with, "none" before
    pointCount,       \* cluster paint evaluation: the cluster's point_count
    paint,            \* cluster paint evaluation: [radius, color]
    click,            \* point click: [lng, feature]
    popup             \* point click: coordinates handed to createPopup

vars == <<map, ipLocationData, loadPc, response, status, sources, layers,
          activeStyle, onceStyledata, dispatching, camera, interactions,
          lookups, popups, renderCalls, lastRender, earlySwitch, styleRequest,
          pointCount, paint, click, popup>>

pageVars == <<map, ipLocationData, loadPc, response, status, sources, layers,
              activeStyle, onceStyledata, dispatching, camera, interactions,
              lookups, popups, renderCalls, lastRender, earlySwitch,
              styleRequest>>

paintVars == <<pointCount, paint>>

popupVars == <<click, popup>>

----------------------------------------------------------------------------
(* Bounds of the model *)

\* zoom levels explored above the default zoom
ZoomSpan == 1

\* style switches whose styledata event is still to come
MaxPendingSwitches == 2

\* addGeoJSONToMap calls explored
MaxRenders == 3

\* expansion-zoom lookups in flight
MaxLookups == 2

\* largest point_count evaluated
MaxPointCount == 60

\* how far the click may be from the feature, in whole turns of the globe
MaxTurns == 2

----------------------------------------------------------------------------
(* JavaScript values *)

Undefined == [t |-> "undefined"]

Null == [t |-> "null"]

Num(v) == [t |-> "number", v |-> v]

Str(s) == [t |-> "string", s |-> s]

Arr(items) == [t |-> "array", items |-> items]

Obj(features) == [t |-> "object", features |-> features]

\* ToBoolean
Truthy(x) ==
    CASE x.t \in {"undefined", "null"} -> FALSE
      [] x.t = "number" -> x.v # 0
      [] x.t = "string" -> x.s # ""
      [] OTHER -> TRUE

\* x.features
Features(x) == IF x.t = "object" THEN x.features ELSE Undefined

\* x.length
Length(x) ==
    CASE x.t = "string" -> Num(Len(x.s))
      [] x.t = "array" -> Num(Len(x.items))
      [] OTHER -> Undefined

\* String.prototype.includes
Includes(s, sub) ==
    \E i \in 1..(Len(s) - Len(sub) + 1) : SubSeq(s, i, i + Len(sub) - 1) = sub

----------------------------------------------------------------------------
(* Configuration *)

mapStyles == {"streets", "satellite", "dark", "light"}

\* mapStyles is an object literal: besides its own keys, a property read finds
\* the members it inherits from Object.prototype
ObjectPrototype ==
    {"constructor", "hasOwnProperty", "isPrototypeOf", "propertyIsEnumerable",
     "toLocaleString", "toString", "valueOf", "__proto__",
     "__defineGetter__", "__defineSetter__", "__lookupGetter__",
     "__lookupSetter__"}

\* mapStyles[styleKey]: the style of an own key, the prototype object for
\* "__proto__", the function of any other inherited name, else undefined
mapStylesAt(styleKey) ==
    CASE styleKey \in mapStyles -> [t |-> "style", key |-> styleKey]
      [] styleKey = "__proto__" -> Obj(Undefined)
      [] styleKey \in ObjectPrototype -> [t |-> "function", name |-> styleKey]
      [] OTHER -> Undefined

\* coordinates in 1/10000 degree
defaultMapConfig ==
    [center |-> <<-985795, 398283>>, zoom |-> 3, pitch |-> 0, bearing |-> 0]

ColorSuccess == "#27ae60"

ColorInfo == "#3498db"

ColorError == "#e74c3c"

----------------------------------------------------------------------------
(* UI status *)

\* a count that is neither number nor string (undefined) leaves an empty text,
\* as the DOM does for textContent
updateIPCount(count) ==
    IF count.t = "number"
    THEN [text |-> ToString(count.v) \o " unique IP locations loaded",
          color |-> ColorSuccess]
    ELSE [text |-> IF count.t = "string" THEN count.s ELSE "",
          color |-> ColorInfo]

showErrorMessage(message) ==
    [text |-> "Error: " \o message, color |-> ColorError]

----------------------------------------------------------------------------
(* The mapping library, as far as map.js relies on it.  A style state is   *)
(* m = [sources, layers, interactions, status]; a call returns the new     *)
(* state and whether it threw.  fail = TRUE is a throw for a reason of     *)
(* the library's own.                                                      *)

addSource(m, id, fail) ==
    IF fail \/ id \in m.sources
    THEN [threw |-> TRUE, m |-> m]
    ELSE [threw |-> FALSE, m |-> [m EXCEPT !.sources = @ \cup {id}]]

addLayer(m, id, fail) ==
    IF fail \/ (\E i \in 1..Len(m.layers) : m.layers[i] = id)
    THEN [threw |-> TRUE, m |-> m]
    ELSE [threw |-> FALSE, m |-> [m EXCEPT !.layers = Append(@, id)]]

\* setStyle: the new style carries none of the sources and layers added on top;
\* a value that is no style is not loaded
setStyle(m, style) ==
    IF style.t = "style"
    THEN [m EXCEPT !.sources = {}, !.layers = <<>>]
    ELSE m

DataLayers == <<"clusters", "cluster-count", "unclustered-point">>

RenderFailure == "Failed to display IP locations on map."

----------------------------------------------------------------------------
(* Layer Renderer *)

\* binds the six layer-scoped handlers once more; map.on never unbinds
addMapInteractions(m) == [m EXCEPT !.interactions = @ + 1]

\* variant: a successful call also writes an info message to the status node
addGeoJSONToMapAnnounces(m, fault) ==
    LET s1 == addSource(m, "ip-locations", fault = 1)
        s2 == IF s1.threw THEN s1 ELSE addLayer(s1.m, "clusters", fault = 2)
        s3 == IF s2.threw THEN s2 ELSE addLayer(s2.m, "cluster-count", fault = 3)
        s4 == IF s3.threw THEN s3
              ELSE addLayer(s3.m, "unclustered-point", fault = 4)
    IN  IF s4.threw
        THEN [threw |-> TRUE,
              m |-> [s4.m EXCEPT !.status = showErrorMessage(RenderFailure)]]
        ELSE [threw |-> FALSE,
              m |-> [addMapInteractions(s4.m) EXCEPT
                       !.status = updateIPCount(Str("IP locations displayed"))]]

\* fault: 0, or the number of the library call (1 addSource, 2..4 addLayer)
\* that throws for a reason of the library's own
addGeoJSONToMap(m, fault) ==
    LET s1 == addSource(m, "ip-locations", fault = 1)
        s2 == IF s1.threw THEN s1 ELSE addLayer(s1.m, "clusters", fault = 2)
        s3 == IF s2.threw THEN s2 ELSE addLayer(s2.m, "cluster-count", fault = 3)
        s4 == IF s3.threw THEN s3
              ELSE addLayer(s3.m, "unclustered-point", fault = 4)
    IN  IF s4.threw
        THEN [threw |-> TRUE,
              m |-> [s4.m EXCEPT !.status = showErrorMessage(RenderFailure)]]
        ELSE [threw |-> FALSE, m |-> addMapInteractions(s4.m)]

\* the record kept of a call: what it added and how it ended
RenderRecord(before, r) ==
    [called |-> TRUE,
     threw |-> r.threw,
     addedSource |-> r.m.sources # before.sources,
     addedLayers |-> Len(r.m.layers) - Len(before.layers),
     full |-> r.m.sources = {"ip-locations"} /\ r.m.layers = DataLayers,
     reported |-> r.m.status.color = ColorError,
     status |-> r.m.status]

NoRender ==
    [called |-> FALSE, threw |-> FALSE, addedSource |-> FALSE,
     addedLayers |-> 0, full |-> FALSE, reported |-> FALSE,
     status |-> [text |-> "", color |-> ""]]

----------------------------------------------------------------------------
(* Data Loader *)

\* two features: the properties of the second have no url
SampleFeatures ==
    << [ip |-> "203.0.113.7", lng |-> 179, lat |-> 10,
        url |-> Str("https://example.org/a")],
       [ip |-> "198.51.100.9", lng |-> -122, lat |-> 37, url |-> Undefined] >>

\* a body response.text() rejects for, with the message of the rejection
ReadFail(msg) ==
    [read |-> FALSE, parses |-> FALSE, error |-> msg, value |-> Undefined]

ParseFail(msg) ==
    [read |-> TRUE, parses |-> FALSE, error |-> msg, value |-> Undefined]

Parsed(v) == [read |-> TRUE, parses |-> TRUE, error |-> "", value |-> v]

\* bodies whose read fails
LostBodies == { ReadFail("network error") }

\* bodies JSON.parse rejects, with the SyntaxError message of the engine
BadBodies ==
    { ParseFail("Unexpected token < in JSON at position 0"),
      ParseFail("Unexpected token '<', \"<h1>404</h1>\" is not valid JSON") }

\* bodies JSON.parse accepts, as the value it returns
GoodBodies ==
    { Parsed(Null), Parsed(Num(5)),
      Parsed(Obj(Undefined)), Parsed(Obj(Null)),
      Parsed(Obj(Str(""))), Parsed(Obj(Str("abc"))),
      Parsed(Obj(Num(0))), Parsed(Obj(Num(7))),
      Parsed(Obj(Obj(Undefined))),
      Parsed(Obj(Arr(<<>>))),
      Parsed(Obj(Arr(SubSeq(SampleFeatures, 1, 1)))),
      Parsed(Obj(Arr(SampleFeatures))) }

Rejected(msg) ==
    [kind |-> "rejected", message |-> msg, status |-> 0, statusText |-> "",
     body |-> ParseFail("")]

Http(code, text, body) ==
    [kind |-> "response", message |-> "", status |-> code, statusText |-> text,
     body |-> body]

ErrorPage == ParseFail("Unexpected token < in JSON at position 0")

Responses ==
    { Rejected("Failed to fetch"),
      Rejected("NetworkError when attempting to fetch resource.") }
    \cup { Http(404, "Not Found", ErrorPage), Http(404, "", ErrorPage),
           Http(403, "Forbidden", ErrorPage),
           Http(500, "Internal Server Error", ErrorPage),
           Http(500, "", ErrorPage),
           Http(502, "upstream 404", ErrorPage),
           Http(503, "Failed to fetch", ErrorPage) }
    \cup { Http(200, "OK", b) : b \in LostBodies \cup BadBodies \cup GoodBodies }

\* response.ok
Ok(resp) == resp.status \in 200..299

NoError == "<no error>"

\* the try block of loadGeoJSONData from the point where the fetch settled up
\* to `await response.text()`: the message of the Error thrown, NoError when
\* the function waits for the body
fetchTry(resp) ==
    IF resp.kind = "rejected"
    THEN resp.message
    ELSE IF ~Ok(resp)
    THEN "HTTP error! status: " \o ToString(resp.status) \o " - "
         \o resp.statusText
    ELSE NoError

\* the try block of loadGeoJSONData from the point where the read of the body
\* settled up to the call of the renderer: the message of the Error thrown
\* (NoError if none) and the value the global holds afterwards
loadTry(body, data) ==
    IF ~body.read \/ ~body.parses
    THEN [error |-> body.error, data |-> data]
    ELSE LET parsed == body.value
         IN  IF ~Truthy(parsed) \/ ~Truthy(Features(parsed))
             THEN [error |-> "Invalid GeoJSON structure - missing features array",
                   data |-> parsed]
             ELSE IF Length(Features(parsed)) = Num(0)
             THEN [error |-> "GeoJSON file contains no features", data |-> parsed]
             ELSE [error |-> NoError, data |-> parsed]

NotFoundGuidance == "GeoJSON file not found. Please check the file path."

NetworkGuidance ==
    "Network error. Please ensure you are running this from a web server."

\* variant: the catch block without its test for "404"
loadCatchWithout404(message) ==
    IF Includes(message, "Failed to fetch")
    THEN showErrorMessage(NetworkGuidance)
    ELSE showErrorMessage("Failed to load IP location data: " \o message)

\* the catch block of loadGeoJSONData
loadCatch(message) ==
    IF Includes(message, "404")
    THEN showErrorMessage(NotFoundGuidance)
    ELSE IF Includes(message, "Failed to fetch")
    THEN showErrorMessage(NetworkGuidance)
    ELSE showErrorMessage("Failed to load IP location data: " \o message)

\* loadGeoJSONData from the point where the read of the body settled
loadGeoJSONData(body, data, m, fault) ==
    LET t == loadTry(body, data)
    IN  IF t.error # NoError
        THEN [data |-> t.data, rendered |-> FALSE, threw |-> FALSE,
              m |-> [m EXCEPT !.status = loadCatch(t.error)]]
        ELSE LET shown == [m EXCEPT
                             !.status = updateIPCount(Length(Features(t.data)))]
                 r == addGeoJSONToMap(shown, fault)
             IN  [data |-> t.data, rendered |-> TRUE, threw |-> r.threw,
                  m |-> r.m]

----------------------------------------------------------------------------
(* Style switch *)

UnknownStyleKey == "terrain"

StyleFailure == "Failed to change map style."

\* getCenter, getZoom, getPitch, getBearing: what the closure keeps
captureCamera(cam) ==
    [center |-> cam.center, zoom |-> cam.zoom, pitch |-> cam.pitch,
     bearing |-> cam.bearing]

\* changeMapStyle on st = [m, activeStyle, once, camera]; fault: setStyle throws
changeMapStyle(st, styleKey, mapObject, fault) ==
    IF mapObject = "created" /\ Truthy(mapStylesAt(styleKey))
    THEN IF fault
         THEN [st EXCEPT !.m.status = showErrorMessage(StyleFailure)]
         ELSE [st EXCEPT !.m = setStyle(@, mapStylesAt(styleKey)),
                         !.activeStyle = styleKey,
                         !.once = Append(@, captureCamera(st.camera))]
    ELSE st

\* variant: the listener without its setPitch and setBearing calls
styledataCallbackFlat(closure, cam, data, m, fault) ==
    LET restored == [cam EXCEPT !.center = closure.center,
                                !.zoom = closure.zoom]
    IN  IF Truthy(data)
        THEN LET r == addGeoJSONToMap(m, fault)
             IN  [camera |-> restored, rendered |-> TRUE, threw |-> r.threw,
                  m |-> r.m]
        ELSE [camera |-> restored, rendered |-> FALSE, threw |-> FALSE, m |-> m]

\* the listener changeMapStyle registers with map.once('styledata'):
\* setCenter, setZoom, setPitch, setBearing, then the renderer if data is there
styledataCallback(closure, cam, data, m, fault) ==
    LET restored == [cam EXCEPT !.center = closure.center,
                                !.zoom = closure.zoom,
                                !.pitch = closure.pitch,
                                !.bearing = closure.bearing]
    IN  IF Truthy(data)
        THEN LET r == addGeoJSONToMap(m, fault)
             IN  [camera |-> restored, rendered |-> TRUE, threw |-> r.threw,
                  m |-> r.m]
        ELSE [camera |-> restored, rendered |-> FALSE, threw |-> FALSE, m |-> m]

\* resetMapView: easeTo the default camera
resetMapView(cam) ==
    [center |-> defaultMapConfig.center, zoom |-> defaultMapConfig.zoom,
     pitch |-> defaultMapConfig.pitch, bearing |-> defaultMapConfig.bearing]

----------------------------------------------------------------------------
(* The page after DOMContentLoaded *)

InitialStatus == [text |-> "", color |-> ""]

M == [sources |-> sources, layers |-> layers, interactions |-> interactions,
      status |-> status]

SetM(m) ==
    /\ sources' = m.sources
    /\ layers' = m.layers
    /\ interactions' = m.interactions
    /\ status' = m.status

PageInit ==
    /\ map \in {"created", "undefined"}
    /\ ipLocationData = Null
    /\ loadPc = "idle"
    /\ response = "none"
    /\ status = IF map = "created"
                THEN InitialStatus
                ELSE showErrorMessage(
                       "Failed to initialize map: MapLibre GL JS library not loaded")
    /\ sources = {}
    /\ layers = <<>>
    /\ activeStyle = "streets"
    /\ onceStyledata = <<>>
    /\ dispatching = <<>>
    /\ camera = defaultMapConfig
    /\ interactions = 0
    /\ lookups = 0
    /\ popups = 0
    /\ renderCalls = 0
    /\ lastRender = NoRender
    /\ earlySwitch = FALSE
    /\ styleRequest = "none"

NoPaint == [radius |-> 0, color |-> ""]

NoClick == [lngLat |-> 0, feature |-> [lng |-> 0, lat |-> 0]]

NoPopup == [shown |-> FALSE, lng |-> 0, lat |-> 0, rounds |-> 0]

Init ==
    /\ PageInit
    /\ pointCount = 0
    /\ paint = NoPaint
    /\ click = NoClick
    /\ popup = NoPopup

\* no handler is running
Idle == dispatching = <<>>

----------------------------------------------------------------------------
(* Handlers *)

\* map 'load': loadGeoJSONData up to its await
MapLoad ==
    /\ Idle
    /\ map = "created"
    /\ loadPc = "idle"
    /\ loadPc' = "fetching"
    /\ status' = updateIPCount(Str("Loading IP locations..."))
    /\ UNCHANGED <<map, ipLocationData, response, sources, layers, activeStyle,
                   onceStyledata, dispatching, camera, interactions, lookups,
                   renderCalls, lastRender, earlySwitch,
                   styleRequest, popups, paintVars, popupVars>>

\* the fetch settles: loadGeoJSONData up to `await response.text()`, or into
\* its catch block when the fetch was rejected or the response is not ok
FetchSettled(resp) ==
    /\ Idle
    /\ loadPc = "fetching"
    /\ LET error == fetchTry(resp)
       IN  IF error = NoError
           THEN /\ loadPc' = "reading"
                /\ status' = status
           ELSE /\ loadPc' = "done"
                /\ status' = loadCatch(error)
    /\ response' = resp
    /\ UNCHANGED <<map, ipLocationData, sources, layers, activeStyle,
                   onceStyledata, dispatching, camera, interactions, lookups,
                   renderCalls, lastRender, earlySwitch, styleRequest, popups,
                   paintVars, popupVars>>

\* the read of the body settles: the rest of loadGeoJSONData
BodySettled(fault) ==
    /\ Idle
    /\ loadPc = "reading"
    /\ LET r == loadGeoJSONData(response.body, ipLocationData, M, fault)
       IN  /\ ipLocationData' = r.data
           /\ SetM(r.m)
           /\ renderCalls' = IF r.rendered THEN renderCalls + 1 ELSE renderCalls
           /\ lastRender' = IF r.rendered
                            THEN RenderRecord(M, r)
                            ELSE lastRender
    /\ loadPc' = "done"
    /\ UNCHANGED <<map, response, activeStyle, onceStyledata, dispatching,
                   camera, lookups, earlySwitch, styleRequest, popups, paintVars,
                   popupVars>>

\* map 'error'
MapError(message) ==
    /\ Idle
    /\ map = "created"
    /\ status' = showErrorMessage(
                   "Map error: " \o (IF message # "" THEN message
                                     ELSE "Unknown map error"))
    /\ UNCHANGED <<map, ipLocationData, loadPc, response, sources, layers,
                   activeStyle, onceStyledata, dispatching, camera, interactions,
                   lookups, renderCalls, lastRender, earlySwitch,
                   styleRequest, popups, paintVars, popupVars>>

\* window 'error'
WindowError ==
    /\ Idle
    /\ status' = showErrorMessage(
                   "An unexpected error occurred. Please refresh the page.")
    /\ UNCHANGED <<map, ipLocationData, loadPc, response, sources, layers,
                   activeStyle, onceStyledata, dispatching, camera, interactions,
                   lookups, renderCalls, lastRender, earlySwitch,
                   styleRequest, popups, paintVars, popupVars>>

\* window 'unhandledrejection'
UnhandledRejection ==
    /\ Idle
    /\ status' = showErrorMessage(
                   "A network error occurred. Please check your connection.")
    /\ UNCHANGED <<map, ipLocationData, loadPc, response, sources, layers,
                   activeStyle, onceStyledata, dispatching, camera, interactions,
                   lookups, renderCalls, lastRender, earlySwitch,
                   styleRequest, popups, paintVars, popupVars>>

\* 'change' on the style selector
ChangeStyle(styleKey, fault) ==
    /\ Idle
    /\ (map = "created" /\ Truthy(mapStylesAt(styleKey))) =>
          /\ Len(onceStyledata) < MaxPendingSwitches
          /\ renderCalls + Len(onceStyledata) < MaxRenders
    /\ LET st == changeMapStyle(
                   [m |-> M, activeStyle |-> activeStyle, once |-> onceStyledata,
                    camera |-> camera], styleKey, map, fault)
       IN  /\ SetM(st.m)
           /\ activeStyle' = st.activeStyle
           /\ onceStyledata' = st.once
           /\ earlySwitch' = (earlySwitch \/ (st.once # onceStyledata
                                              /\ loadPc # "done"))
    /\ styleRequest' = styleKey
    /\ UNCHANGED <<map, ipLocationData, loadPc, response, dispatching, camera,
                   lookups, renderCalls, lastRender, popups, paintVars,
                   popupVars>>

\* the zoom levels the zoom buttons move between
ZoomLo == defaultMapConfig.zoom

ZoomHi == defaultMapConfig.zoom + ZoomSpan

\* camera a freshly loaded style may come with before the listeners run
styleCamera == [center |-> <<0, 0>>, zoom |-> ZoomLo, pitch |-> 0, bearing |-> 0]

\* 'styledata' after setStyle: every once-listener is taken for delivery
StyleData(reset) ==
    /\ Idle
    /\ onceStyledata # <<>>
    /\ dispatching' = onceStyledata
    /\ onceStyledata' = <<>>
    /\ camera' = IF reset THEN styleCamera ELSE camera
    /\ UNCHANGED <<map, ipLocationData, loadPc, response, status, sources,
                   layers, activeStyle, interactions, lookups, renderCalls,
                   lastRender, earlySwitch,
                   styleRequest, popups, paintVars, popupVars>>

\* one once-listener of the event being delivered runs
RunCallback(fault) ==
    /\ dispatching # <<>>
    /\ LET r == styledataCallback(Head(dispatching), camera, ipLocationData, M,
                                  fault)
       IN  /\ camera' = r.camera
           /\ SetM(r.m)
           /\ renderCalls' = IF r.rendered THEN renderCalls + 1 ELSE renderCalls
           /\ lastRender' = IF r.rendered
                            THEN RenderRecord(M, r)
                            ELSE lastRender
    /\ dispatching' = Tail(dispatching)
    /\ UNCHANGED <<map, ipLocationData, loadPc, response, activeStyle,
                   onceStyledata, lookups, earlySwitch,
                   styleRequest, popups, paintVars, popupVars>>

\* 'click' on #zoom-in
ZoomIn ==
    /\ Idle
    /\ map = "created"
    /\ camera.zoom < ZoomHi
    /\ camera' = [camera EXCEPT !.zoom = @ + 1]
    /\ UNCHANGED <<map, ipLocationData, loadPc, response, status, sources,
                   layers, activeStyle, onceStyledata, dispatching, interactions,
                   lookups, renderCalls, lastRender, earlySwitch,
                   styleRequest, popups, paintVars, popupVars>>

\* 'click' on #zoom-out
ZoomOut ==
    /\ Idle
    /\ map = "created"
    /\ camera.zoom > ZoomLo
    /\ camera' = [camera EXCEPT !.zoom = @ - 1]
    /\ UNCHANGED <<map, ipLocationData, loadPc, response, status, sources,
                   layers, activeStyle, onceStyledata, dispatching, interactions,
                   lookups, renderCalls, lastRender, earlySwitch,
                   styleRequest, popups, paintVars, popupVars>>

\* 'click' on #reset-view
ResetView ==
    /\ Idle
    /\ map = "created"
    /\ camera' = resetMapView(camera)
    /\ UNCHANGED <<map, ipLocationData, loadPc, response, status, sources,
                   layers, activeStyle, onceStyledata, dispatching, interactions,
                   lookups, renderCalls, lastRender, earlySwitch,
                   styleRequest, popups, paintVars, popupVars>>

\* the navigation control: the user tilts and rotates the map
Rotate(pitch, bearing) ==
    /\ Idle
    /\ map = "created"
    /\ camera' = [camera EXCEPT !.pitch = pitch, !.bearing = bearing]
    /\ UNCHANGED <<map, ipLocationData, loadPc, response, status, sources,
                   layers, activeStyle, onceStyledata, dispatching, interactions,
                   lookups, renderCalls, lastRender, earlySwitch,
                   styleRequest, popups, paintVars, popupVars>>

\* the cluster the sample features form, in the camera's unit
ClusterCenter == <<285000, 235000>>

ExpansionZoom == ZoomHi

\* 'click' on the clusters layer: every bound handler asks for the zoom; the
\* popups open before the click close on it (closeOnClick)
ClusterClick ==
    /\ Idle
    /\ map = "created"
    /\ \E i \in 1..Len(layers) : layers[i] = "clusters"
    /\ "ip-locations" \in sources
    /\ Features(ipLocationData).t = "array"
    /\ Len(Features(ipLocationData).items) >= 2
    /\ interactions >= 1
    /\ lookups + interactions <= MaxLookups
    /\ lookups' = lookups + interactions
    /\ popups' = 0
    /\ UNCHANGED <<map, ipLocationData, loadPc, response, status, sources,
                   layers, activeStyle, onceStyledata, dispatching, camera,
                   interactions, renderCalls, lastRender, earlySwitch,
                   styleRequest, paintVars, popupVars>>

\* the callback given to getClusterExpansionZoom
ZoomCallback(err) ==
    /\ Idle
    /\ lookups > 0
    /\ lookups' = lookups - 1
    /\ camera' = IF err THEN camera
                 ELSE [camera EXCEPT !.center = ClusterCenter,
                                     !.zoom = ExpansionZoom]
    /\ UNCHANGED <<map, ipLocationData, loadPc, response, status, sources,
                   layers, activeStyle, onceStyledata, dispatching, interactions,
                   renderCalls, lastRender, earlySwitch,
                   styleRequest, popups, paintVars, popupVars>>

\* createPopup: TRUE when the popup is added to the map, FALSE when its try
\* block throws: properties.url.length does for properties without url, and
\* properties.url.substring for a url longer than 50 that is no string
createPopup(properties) ==
    LET url == properties.url
        length == Length(url)
    IN  IF url.t \in {"undefined", "null"}
        THEN FALSE
        ELSE IF length.t = "number" /\ length.v > 50
        THEN url.t = "string"
        ELSE TRUE

\* 'click' on feature i of the unclustered-point layer: every bound handler
\* calls createPopup; the popups open before the click close on it
\* (closeOnClick)
UnclusteredPointClick(i) ==
    /\ Idle
    /\ map = "created"
    /\ \E j \in 1..Len(layers) : layers[j] = "unclustered-point"
    /\ "ip-locations" \in sources
    /\ Features(ipLocationData).t = "array"
    /\ i \in 1..Len(Features(ipLocationData).items)
    /\ interactions >= 1
    /\ popups' = IF createPopup(Features(ipLocationData).items[i])
                 THEN interactions
                 ELSE 0
    /\ UNCHANGED <<map, ipLocationData, loadPc, response, status, sources,
                   layers, activeStyle, onceStyledata, dispatching, camera,
                   interactions, lookups, renderCalls, lastRender, earlySwitch,
                   styleRequest, paintVars, popupVars>>

\* 'click' on the map away from the data layers: the open popups close
MapClick ==
    /\ Idle
    /\ map = "created"
    /\ popups > 0
    /\ popups' = 0
    /\ UNCHANGED <<map, ipLocationData, loadPc, response, status, sources,
                   layers, activeStyle, onceStyledata, dispatching, camera,
                   interactions, lookups, renderCalls, lastRender, earlySwitch,
                   styleRequest, paintVars, popupVars>>

\* keys of the registry the style selector sends
StyleKeys == {"dark", "satellite"}

Tilts == {<<0, 0>>, <<45, 90>>}

MapErrorMessages == {"", "Failed to load tile"}

FaultPoints == 0..4

\* one response for each way load() can end
CoreResponses ==
    { Rejected("Failed to fetch"), Http(404, "Not Found", ErrorPage),
      Http(200, "OK", ReadFail("network error")),
      Http(200, "OK", ErrorPage), Http(200, "OK", Parsed(Obj(Undefined))),
      Http(200, "OK", Parsed(Obj(Arr(<<>>)))),
      Http(200, "OK", Parsed(Obj(Arr(SampleFeatures)))) }

\* The page with a library that throws only on a duplicate id: loading with
\* every response, errors, style switches and the toolbar buttons.
Next ==
    \/ MapLoad
    \/ \E resp \in Responses : FetchSettled(resp)
    \/ BodySettled(0)
    \/ \E msg \in MapErrorMessages : MapError(msg)
    \/ WindowError
    \/ UnhandledRejection
    \/ \E k \in StyleKeys : ChangeStyle(k, FALSE)
    \/ StyleData(FALSE)
    \/ RunCallback(0)
    \/ ZoomIn
    \/ ZoomOut
    \/ ResetView

Spec == Init /\ [][Next]_vars

\* The camera: every handler that moves it, around style switches, before and
\* after the data is loaded.
NextCamera ==
    \/ MapLoad
    \/ FetchSettled(Http(200, "OK", Parsed(Obj(Arr(SampleFeatures)))))
    \/ BodySettled(0)
    \/ \E k \in {"dark", UnknownStyleKey} : ChangeStyle(k, FALSE)
    \/ \E reset \in BOOLEAN : StyleData(reset)
    \/ RunCallback(0)
    \/ ZoomIn
    \/ ZoomOut
    \/ ResetView
    \/ \E t \in Tilts : Rotate(t[1], t[2])
    \/ ClusterClick
    \/ \E err \in BOOLEAN : ZoomCallback(err)

SpecCamera == Init /\ [][NextCamera]_vars

\* The page with a library whose calls may also throw for reasons of its own.
NextFault ==
    \/ MapLoad
    \/ \E resp \in CoreResponses : FetchSettled(resp)
    \/ \E f \in FaultPoints : BodySettled(f)
    \/ \E k \in StyleKeys, f \in BOOLEAN : ChangeStyle(k, f)
    \/ StyleData(FALSE)
    \/ \E f \in FaultPoints : RunCallback(f)

SpecFault == Init /\ [][NextFault]_vars

\* keys changeMapStyle is called with: one of the registry, one that names
\* nothing, one that names a member mapStyles inherits
SelectorKeys ==
    {"dark", UnknownStyleKey, "constructor", "__proto__", "__defineGetter__"}

\* The style selector: changeMapStyle with keys in and out of the registry,
\* before and after the load, with and without a map.
NextSelector ==
    \/ MapLoad
    \/ \E resp \in { Http(404, "Not Found", ErrorPage),
                      Http(200, "OK", Parsed(Obj(Arr(SampleFeatures)))) } :
          FetchSettled(resp)
    \/ BodySettled(0)
    \/ \E k \in SelectorKeys : ChangeStyle(k, FALSE)
    \/ StyleData(FALSE)
    \/ RunCallback(0)
    \/ ZoomIn
    \/ ZoomOut

SpecSelector == Init /\ [][NextSelector]_vars

\* The handlers addMapInteractions binds: clicks on the data layers after the
\* initial render and after the renders that follow style switches.
NextInteractions ==
    \/ MapLoad
    \/ FetchSettled(Http(200, "OK", Parsed(Obj(Arr(SampleFeatures)))))
    \/ BodySettled(0)
    \/ \E k \in {"dark", "light"} : ChangeStyle(k, FALSE)
    \/ StyleData(FALSE)
    \/ RunCallback(0)
    \/ \E i \in 1..Len(SampleFeatures) : UnclusteredPointClick(i)
    \/ MapClick
    \/ ClusterClick
    \/ \E err \in BOOLEAN : ZoomCallback(err)

SpecInteractions == Init /\ [][NextInteractions]_vars

----------------------------------------------------------------------------
(* Paint of the clusters layer *)

\* a 'step' expression: the output of the last stop at or below the input,
\* the base output when the input is below the first stop
step(input, base, stops) ==
    LET below == {i \in 1..Len(stops) : stops[i].stop <= input}
    IN  IF below = {} THEN base
        ELSE stops[CHOOSE i \in below : \A j \in below : j <= i].out

circleColor(n) ==
    step(n, "#51bbd6",
         << [stop |-> 10, out |-> "#f1f075"], [stop |-> 30, out |-> "#f28cb1"] >>)

\* variant: the second stop of the radius at 20 instead of 30
circleRadiusEarly(n) ==
    step(n, 20, << [stop |-> 10, out |-> 30], [stop |-> 20, out |-> 40] >>)

circleRadius(n) ==
    step(n, 20, << [stop |-> 10, out |-> 30], [stop |-> 30, out |-> 40] >>)

PaintInit ==
    /\ PageInit
    /\ pointCount \in 1..MaxPointCount
    /\ paint = NoPaint
    /\ click = NoClick
    /\ popup = NoPopup

\* the clusters layer draws a cluster
DrawCluster ==
    /\ paint = NoPaint
    /\ paint' = [radius |-> circleRadius(pointCount),
                 color |-> circleColor(pointCount)]
    /\ UNCHANGED <<pageVars, pointCount, popupVars>>

\* the source clusters again: the cluster has another point count
Recluster(n) ==
    /\ paint # NoPaint
    /\ pointCount' = n
    /\ paint' = NoPaint
    /\ UNCHANGED <<pageVars, popupVars>>

NextPaint ==
    \/ DrawCluster
    \/ \E n \in 1..MaxPointCount : Recluster(n)

SpecPaint == PaintInit /\ [][NextPaint]_vars

----------------------------------------------------------------------------
(* Click on an unclustered point *)

Abs(x) == IF x < 0 THEN -x ELSE x

\* variant: an if in place of the while
wrapOnce(clickLng, lng, rounds) ==
    IF Abs(clickLng - lng) > 180
    THEN [lng |-> lng + (IF clickLng > lng THEN 360 ELSE -360),
          rounds |-> rounds + 1]
    ELSE [lng |-> lng, rounds |-> rounds]

\* the while loop of the handler on the copy of the coordinates
RECURSIVE wrapLoop(_, _, _)
wrapLoop(clickLng, lng, rounds) ==
    IF Abs(clickLng - lng) > 180
    THEN wrapLoop(clickLng, lng + (IF clickLng > lng THEN 360 ELSE -360),
                  rounds + 1)
    ELSE [lng |-> lng, rounds |-> rounds]

\* the 'click' handler of unclustered-point on event e = [lngLat, feature]:
\* the coordinates given to createPopup and the feature as the handler leaves it
pointClick(e) ==
    LET coordinates == [lng |-> e.feature.lng, lat |-> e.feature.lat]
        w == wrapLoop(e.lngLat, coordinates.lng, 0)
    IN  [popup |-> [shown |-> TRUE, lng |-> w.lng, lat |-> coordinates.lat,
                    rounds |-> w.rounds],
         feature |-> e.feature]

FeatureLngs == {-180, -179, 0, 179, 180}

NearOffsets == {-180, -179, 0, 179, 180}

\* click longitudes: the map repeats the world, the click is not wrapped
ClickLngs(f) ==
    {f + t * 360 + d : t \in (-MaxTurns)..MaxTurns, d \in NearOffsets}

PopupInit ==
    /\ PageInit
    /\ pointCount = 0
    /\ paint = NoPaint
    /\ \E f \in FeatureLngs, lat \in {-10, 37} :
          \E c \in ClickLngs(f) :
             click = [lngLat |-> c, feature |-> [lng |-> f, lat |-> lat]]
    /\ popup = NoPopup

PointClick ==
    /\ ~popup.shown
    /\ LET r == pointClick(click)
       IN  /\ popup' = r.popup
           /\ click' = [click EXCEPT !.feature = r.feature]
    /\ UNCHANGED <<pageVars, paintVars>>

\* the popup is closed
ClosePopup ==
    /\ popup.shown
    /\ popup' = NoPopup
    /\ UNCHANGED <<pageVars, paintVars, click>>

NextPopup ==
    \/ PointClick
    \/ ClosePopup

SpecPopup == PopupInit /\ [][NextPopup]_vars

----------------------------------------------------------------------------
(* Properties *)

\* the load has ended with a collection of at least one feature stored
CollectionLoaded ==
    /\ loadPc = "done"
    /\ Features(ipLocationData).t = "array"
    /\ Len(Features(ipLocationData).items) >= 1

\* the load has ended in its catch block
LoadFailed ==
    /\ loadPc = "done"
    /\ \/ fetchTry(response) # NoError
       \/ loadTry(response.body, Null).error # NoError

\* this step contains a call of addGeoJSONToMap
RenderStep == renderCalls' = renderCalls + 1

\* C1: after every call of addGeoJSONToMap either the source and the three
\* layers are all on the map, or the call added nothing and the status node
\* shows an error.
C1_AllOrNothing ==
    lastRender.called =>
        \/ lastRender.full
        \/ /\ ~lastRender.addedSource
           /\ lastRender.addedLayers = 0
           /\ lastRender.reported

\* C2: with a collection loaded, a call of addGeoJSONToMap made while the result
\* of the previous call is still on the map and in the status node leaves the
\* source, the layers and the status as the previous call left them.
C2_RenderIdempotent ==
    [][(/\ RenderStep
        /\ CollectionLoaded
        /\ lastRender.called
        /\ ~lastRender.threw
        /\ sources = {"ip-locations"}
        /\ layers = DataLayers
        /\ status = lastRender.status)
       => (/\ sources' = sources
           /\ layers' = layers
           /\ status' = lastRender.status)]_vars

\* C3: with a collection loaded before any style switch was made, whenever no
\* styledata listener is waiting or running the map carries the source and
\* exactly the three layers, and the status node reports no render failure.
C3_RerenderAfterSwitch ==
    (CollectionLoaded /\ ~earlySwitch /\ onceStyledata = <<>> /\ Idle) =>
        /\ sources = {"ip-locations"}
        /\ layers = DataLayers
        /\ status # showErrorMessage(RenderFailure)

\* C4: after a failed load the renderer has never been called and the map has
\* no data source and no data layer, whatever the user did since the failure.
C4_NoRecovery ==
    (LoadFailed /\ ~earlySwitch) =>
        /\ ~lastRender.called
        /\ sources = {}
        /\ layers = <<>>

\* C5 as claimed: an error-styled status node stays error-styled.
C5_ErrorsPersist ==
    [][status.color = ColorError => status'.color = ColorError]_vars

\* C5: once loadGeoJSONData has ended, or when no map was created, an
\* error-styled status node stays error-styled; only another error replaces it.
C5_ErrorsPersistAfterLoad ==
    [][(status.color = ColorError /\ (loadPc = "done" \/ map = "undefined"))
       => status'.color = ColorError]_vars

\* an error is shown over a collection that was loaded and re-rendered
C5_Witness ==
    /\ CollectionLoaded
    /\ status.color = ColorError
    /\ renderCalls >= 2
    /\ ~lastRender.threw

\* this step is the continuation of loadGeoJSONData on the body of a 2xx
\* response
LoadStepOk ==
    /\ loadPc = "reading"
    /\ loadPc' = "done"
    /\ response'.kind = "response"
    /\ Ok(response')

\* this step is the continuation of loadGeoJSONData on a non-2xx response
LoadStepHttpError ==
    /\ loadPc = "fetching"
    /\ loadPc' = "done"
    /\ response'.kind = "response"
    /\ ~Ok(response')

MissingFeatures ==
    "Failed to load IP location data: Invalid GeoJSON structure - missing features array"

NoFeatures == "Failed to load IP location data: GeoJSON file contains no features"

\* what is wrong with a body: "parse" (not read or not parsed), "missing",
\* "empty" or "none"
Defect(body) ==
    IF ~body.read \/ ~body.parses THEN "parse"
    ELSE IF Features(body.value).t # "array" THEN "missing"
    ELSE IF Len(Features(body.value).items) = 0 THEN "empty"
    ELSE "none"

\* C6: on a 2xx response, a body that does not parse, has no features array or
\* has an empty one ends load() with an error message of its own and without a
\* call of the renderer; any other body ends it with the feature count shown
\* and the renderer called.
C6_Validation ==
    [][LoadStepOk =>
        LET defect == Defect(response'.body)
        IN  /\ defect # "none" =>
                 /\ status'.color = ColorError
                 /\ renderCalls' = renderCalls
            /\ defect = "parse" =>
                 status'.text \notin {"Error: " \o MissingFeatures,
                                      "Error: " \o NoFeatures}
            /\ defect = "missing" => status'.text = "Error: " \o MissingFeatures
            /\ defect = "empty" => status'.text = "Error: " \o NoFeatures
            /\ defect = "none" =>
                 /\ status' = updateIPCount(
                                Num(Len(Features(response'.body.value).items)))
                 /\ RenderStep]_vars

\* the text thrown for a non-2xx response
HttpErrorText(resp) ==
    "HTTP error! status: " \o ToString(resp.status) \o " - " \o resp.statusText

\* C7 as claimed: every non-2xx response ends load() with an HTTP-error message
\* that includes the status code.
C7_StatusCodeShown ==
    [][LoadStepHttpError =>
        /\ status'.color = ColorError
        /\ Includes(status'.text, "HTTP error")
        /\ Includes(status'.text, ToString(response'.status))]_vars

\* C7: a non-2xx response ends load() with an error; it is the HTTP-error
\* message with the status code unless the thrown text contains "404" (then the
\* not-found guidance is shown) or else "Failed to fetch" (then the network
\* guidance is shown), and neither guidance includes the status code.
C7_StatusCodeShownUnlessGuidance ==
    [][LoadStepHttpError =>
        LET code == ToString(response'.status)
            thrown == HttpErrorText(response')
        IN  /\ status'.color = ColorError
            /\ Includes(thrown, "404") =>
                 /\ status'.text = "Error: " \o NotFoundGuidance
                 /\ ~Includes(status'.text, code)
            /\ (~Includes(thrown, "404") /\ Includes(thrown, "Failed to fetch")) =>
                 /\ status'.text = "Error: " \o NetworkGuidance
                 /\ ~Includes(status'.text, code)
            /\ (~Includes(thrown, "404") /\ ~Includes(thrown, "Failed to fetch")) =>
                 /\ status'.text
                      = "Error: Failed to load IP location data: " \o thrown
                 /\ Includes(status'.text, "HTTP error")
                 /\ Includes(status'.text, code)]_vars

\* load() has ended on a 500 response and shows its status code
C7_Witness ==
    /\ loadPc = "done"
    /\ response.kind = "response"
    /\ response.status = 500
    /\ Includes(status.text, "HTTP error! status: 500")

\* C8: the closure a style switch registers holds the camera of the moment of
\* the switch, and the camera right after a styledata listener has run is the
\* camera its closure holds, whatever moved the camera in between.
C8_CameraPreserved ==
    [][/\ Len(onceStyledata') = Len(onceStyledata) + 1 =>
            onceStyledata'[Len(onceStyledata')] = camera
       /\ dispatching # <<>> => camera' = Head(dispatching)]_vars

\* a listener is about to run while the camera is elsewhere in centre, zoom,
\* pitch and bearing
C8_Witness ==
    /\ dispatching # <<>>
    /\ camera.center # Head(dispatching).center
    /\ camera.zoom # Head(dispatching).zoom
    /\ camera.pitch # Head(dispatching).pitch
    /\ camera.bearing # Head(dispatching).bearing
    /\ Head(dispatching) # defaultMapConfig

\* this step is the click handler of unclustered-point
PointClickStep == ~popup.shown /\ popup'.shown

\* C9 as claimed: the popup longitude is the feature's when the click is within
\* 180 degrees of it, else the feature's shifted by 360 toward the click, and
\* then lies within 180 degrees of the click; the latitude and the feature are
\* untouched.
C9_ShiftBy360 ==
    [][PointClickStep =>
        LET f == click.feature.lng
            c == click.lngLat
        IN  /\ popup'.lng = (IF Abs(c - f) <= 180 THEN f
                             ELSE IF c > f THEN f + 360 ELSE f - 360)
            /\ Abs(c - popup'.lng) <= 180
            /\ popup'.lat = click.feature.lat
            /\ click'.feature = click.feature]_vars

\* the whole turns needed to come within 180 of a distance d
Turns(d) == (d + 179) \div 360

\* C9: the popup longitude is the feature's when the click is within 180
\* degrees of it, else the feature's shifted toward the click by the least
\* number of whole turns of 360 that brings it within 180 degrees of the click;
\* the loop ends after that many rounds, the latitude and the feature are
\* untouched.
C9_ShiftByTurns ==
    [][PointClickStep =>
        LET f == click.feature.lng
            c == click.lngLat
            k == Turns(Abs(c - f))
        IN  /\ Abs(c - f) <= 180 => popup'.lng = f
            /\ popup'.lng = (IF c > f THEN f + 360 * k ELSE f - 360 * k)
            /\ Abs(c - popup'.lng) <= 180
            /\ \A j \in 0..(k - 1) :
                  Abs(c - (IF c > f THEN f + 360 * j ELSE f - 360 * j)) > 180
            /\ popup'.rounds = k
            /\ popup'.lat = click.feature.lat
            /\ click'.feature = click.feature]_vars

\* a popup placed two turns away from its feature
C9_Witness ==
    /\ popup.shown
    /\ popup.rounds = 2
    /\ Abs(popup.lng - click.feature.lng) = 720

\* C10: a drawn cluster of n points has radius 20 and colour #51bbd6 when
\* n < 10, radius 30 and #f1f075 when 10 <= n < 30, radius 40 and #f28cb1 when
\* n >= 30.
C10_Buckets ==
    paint # NoPaint =>
        /\ pointCount < 10 =>
              paint = [radius |-> 20, color |-> "#51bbd6"]
        /\ (10 <= pointCount /\ pointCount < 30) =>
              paint = [radius |-> 30, color |-> "#f1f075"]
        /\ pointCount >= 30 =>
              paint = [radius |-> 40, color |-> "#f28cb1"]

\* a cluster of exactly 30 points drawn in the third bucket
C10_Witness ==
    /\ pointCount = 30
    /\ paint = [radius |-> 40, color |-> "#f28cb1"]

\* this step is a call of changeMapStyle with another key than the call before
StyleRequestStep == styleRequest' # styleRequest

\* what C11 names: the active style, the camera, the loaded collection, the
\* data layers, the registered callbacks and the status node
StyleSwitchFrame ==
    <<activeStyle, camera, ipLocationData, sources, layers, onceStyledata,
      dispatching, interactions, status>>

\* C11 as claimed: a call of changeMapStyle with a key that is not in the
\* registry, or with no map, leaves the active style, the camera, the loaded
\* collection, the data layers, the registered callbacks and the status node
\* as they were, and so shows no error.
C11_UnknownKeyNoOp ==
    [][(StyleRequestStep /\ (styleRequest' \notin mapStyles \/ map # "created"))
          => UNCHANGED StyleSwitchFrame]_vars

\* C11 for the keys a property read of mapStyles finds nothing for, and for
\* every key when there is no map: the call leaves all of it as it was.
C11_AbsentKeyNoOp ==
    [][(StyleRequestStep
          /\ (~Truthy(mapStylesAt(styleRequest')) \/ map # "created"))
          => UNCHANGED StyleSwitchFrame]_vars

\* changeMapStyle was called with a key that names nothing while the
\* collection is drawn and a listener of an earlier switch is registered
C11_Witness ==
    /\ styleRequest = UnknownStyleKey
    /\ map = "created"
    /\ CollectionLoaded
    /\ Len(layers) = 3
    /\ onceStyledata # <<>>

\* C12 as claimed: whenever the data layers are there each layer-scoped
\* handler is bound exactly once, a click on an unclustered point that opens
\* popups leaves exactly one popup open, and a click on a cluster issues
\* exactly one expansion-zoom lookup.
C12_HandlersBoundOnce ==
    [][/\ Len(layers') = 3 => interactions' = 1
       /\ popups' > popups => popups' = 1
       /\ lookups' > lookups => lookups' = lookups + 1]_vars

====
